---- MODULE Spec2Model ----
(***************************************************************************)
(* Syllabification of French words written in IPA (hpat.sylfr).           *)
(*                                                                         *)
(* A string is a sequence of codepoints; every codepoint is written with   *)
(* an ASCII name (X-SAMPA where one exists):                               *)
(*   "E" = U+025B  "@" = U+0259  "9" = U+0153  "2" = U+00F8                *)
(*   "A" = U+0251  "O" = U+0254  "R" = U+0281  "H" = U+0265                *)
(*   "S" = U+0283  "Z" = U+0292  "J" = U+0272  "N" = U+014B                *)
(*   "'" = U+02BC  "~" = U+0303 (combining tilde)                          *)
(*   "_^" = U+032F (combining inverted breve below, X-SAMPA _^)            *)
(* A symbol of the inventory is a sequence of one to three codepoints.     *)
(***************************************************************************)
EXTENDS Integers, Sequences, FiniteSets, TLC

VARIABLES
    syms,       \* the input, as the sequence of pieces it was written with
    pc,         \* position of the caller
    m,          \* syllabify: mirrored(word), the string finditer scans
    pos,        \* syllabify: where finditer resumes in m
    matches,    \* syllabify: the matches met so far, in encounter order
    syllables,  \* syllabify: the list `syllables`, then the returned tuple
    out1,       \* mirrored(word)
    out2        \* mirrored(mirrored(word))

vars == <<syms, pc, m, pos, matches, syllables, out1, out2>>

\* Longest word, in pieces, given to syllabify.
MaxLen == 4

\* Longest string, in pieces, given to mirrored alone.
MaxMirrorLen == 4

----------------------------------------------------------------------------
\* Sequences

Reverse(s) == [i \in 1..Len(s) |-> s[Len(s) + 1 - i]]

Range(s) == {s[i] : i \in 1..Len(s)}

RECURSIVE Flatten(_)
Flatten(ss) == IF ss = <<>> THEN <<>> ELSE Head(ss) \o Flatten(Tail(ss))

\* The non-empty string tok occurs in w at index p.
StartsWith(w, p, tok) ==
    /\ p <= Len(w)
    /\ w[p] = tok[1]
    /\ p + Len(tok) - 1 <= Len(w)
    /\ \A i \in 2..Len(tok) : w[p + i - 1] = tok[i]

----------------------------------------------------------------------------
\* Syllable: the inventory

LIQUIDS == << <<"R">>, <<"l">> >>

GLIDES == << <<"j">>, <<"w">>, <<"H">> >>

VOWELS ==
    << <<"a">>, <<"E">>, <<"e">>, <<"i">>,
       <<"@">>, <<"9">>, <<"2">>, <<"y">>,
       <<"A">>, <<"O">>, <<"o">>, <<"u">>,
       <<"A", "~">>, <<"E", "~">>, <<"9", "~">>, <<"O", "~">>,
       <<"u", "_^", "a">>,
       <<"y", "_^", "i">>,
       <<"i", "_^", "e">>,
       <<"i", "_^", "E">> >>

LIQUID_FRIENDLY ==
    << <<"p">>, <<"b">>, <<"f">>, <<"v">>,
       <<"t">>, <<"d">>,
       <<"k">>, <<"g">> >>

CONSONANTS ==
    << <<"p">>, <<"b">>, <<"f">>, <<"v">>, <<"m">>,
       <<"t">>, <<"d">>, <<"s">>, <<"z">>, <<"n">>,
       <<"k">>, <<"g">>, <<"S">>, <<"Z">>, <<"J">>,
       <<"N">>, <<"'">>, <<"t", "S">>, <<"d", "Z">> >>

----------------------------------------------------------------------------
\* The pattern algebra (hpat.ezre), as far as Syllable uses it. An expression
\* made of literals only is kept as the ordered list of the literals it tries.
\* The compiled pattern is matched by re: ordered alternation, greedy and
\* minimal repetition with backtracking. The doctests of syllabify fix what
\* the source leaves to hpat.ezre: the longest alternative of from_sequence
\* is tried first (kA~bRje has the nucleus A~, not A), and x + None lets x
\* match at the end of the string only (stRikt@mA~ begins with the onset
\* stR, distRibHe has the coda s).

OfLen(tokens, n) == SelectSeq(tokens, LAMBDA t : Len(t) = n)

\* Ezre.from_sequence: an alternation of the tokens, longest first.
from_sequence(tokens) == OfLen(tokens, 3) \o OfLen(tokens, 2) \o OfLen(tokens, 1)

\* a + b on two alternations of literals: every a then every b, in order.
RECURSIVE Concat(_, _)
Concat(as, bs) ==
    IF as = <<>> THEN <<>>
    ELSE [i \in 1..Len(bs) |-> Head(as) \o bs[i]] \o Concat(Tail(as), bs)

\* The alternatives, by index from k on, that are found in w at p.
Found(alts, k, w, p) == {i \in k..Len(alts) : StartsWith(w, p, alts[i])}

Min(I) == CHOOSE i \in I : \A j \in I : i <= j

\* Ordered choice followed by something that cannot fail: the length of the
\* first alternative found at p, 0 when there is none (x[:1], greedy).
FirstAlt(alts, w, p) ==
    LET I == Found(alts, 1, w, p)
    IN  IF I = {} THEN 0 ELSE Len(alts[Min(I)])

----------------------------------------------------------------------------
\* Syllable: the grammar

\* The vowels tried in the order of the list, a vowel before the longer
\* vowels that begin with it.
V_listed == VOWELS

V == from_sequence(VOWELS)

S == from_sequence(<< <<"s">> >>)

L == from_sequence(LIQUIDS)

Y == from_sequence(GLIDES)

C == L \o Y \o from_sequence(CONSONANTS)

LC == Concat(L, from_sequence(LIQUID_FRIENDLY))

NG == << <<"n", "g">> >>

\* (ezre.Ezre.from_str("ng") | LC | C)
NG_LC_C == NG \o LC \o C

NoMatch == [ok |-> FALSE, start |-> 0, nucleus |-> 0, onset |-> 0, end |-> 0]

\* C[:].group("coda") + V.group("nucleus") from p: the greedy repetition tries
\* the alternatives of C from the k-th on, each followed by the rest of the
\* pattern, and then no further consonant, that is the nucleus at p.
\* The result is <<start of nucleus, end of nucleus>>, <<0, 0>> for no match.
RECURSIVE CodaNucleus(_, _, _)
CodaNucleus(w, p, k) ==
    LET I == Found(C, k, w, p)
    IN  IF I = {}
        THEN LET n == FirstAlt(V, w, p)
             IN  IF n > 0 THEN <<p, p + n>> ELSE <<0, 0>>
        ELSE LET i == Min(I)
                 r == CodaNucleus(w, p + Len(C[i]), 1)
             IN  IF r[1] > 0 THEN r ELSE CodaNucleus(w, p, i + 1)

\* S[:1] alone: an s wherever there is one.
Extrasyllabic_greedy(w, p) == FirstAlt(S, w, p)

\* (S[:1] + None | S[:1:min]) from p: an s that ends the string, else nothing
\* at the end of the string, else the minimal repetition, which takes nothing.
Extrasyllabic(w, p) ==
    LET s == FirstAlt(S, w, p)
    IN  IF s > 0 /\ p + s = Len(w) + 1 THEN s
        ELSE IF p = Len(w) + 1 THEN 0
        ELSE 0

\* Every repetition of the onset minimal: it takes nothing.
Onset_minimal(w, p) == p

\* The group "onset" from p; the result is where it ends.
Onset(w, p) ==
    LET p1 == p + FirstAlt(Y, w, p)
        p2 == p1 + FirstAlt(NG_LC_C, w, p1)
    IN  p2 + Extrasyllabic(w, p2)

\* Syllable.pattern matched at p exactly.
Match(w, p, cn) ==
    IF cn[1] = 0 THEN NoMatch
    ELSE [ok |-> TRUE, start |-> p, nucleus |-> cn[1], onset |-> cn[2],
          end |-> Onset(w, cn[2])]

structure(w, p) == Match(w, p, CodaNucleus(w, p, 1))

\* re.finditer's next match: the first position from p on where the pattern
\* matches.
RECURSIVE search(_, _)
OrFurther(w, p, r) == IF r.ok THEN r ELSE search(w, p + 1)

search(w, p) ==
    IF p > Len(w) THEN NoMatch ELSE OrFurther(w, p, structure(w, p))

----------------------------------------------------------------------------
\* mirrored

is_complex(x) == Len(x) # 1

complex_sound ==
    {x \in Range(LIQUIDS \o GLIDES \o VOWELS \o CONSONANTS) : is_complex(x)}

\* re.sub(complex_sound, lambda m: m.group()[::-1], w) from p on. The
\* alternatives are joined in the order of a set; no complex sound is the
\* beginning of another, so at most one is found at p.
RECURSIVE sub(_, _)
sub(w, p) ==
    IF p > Len(w) THEN <<>>
    ELSE LET found == {x \in complex_sound : StartsWith(w, p, x)}
         IN  IF found # {}
             THEN LET x == CHOOSE x \in found : TRUE
                  IN  Reverse(x) \o sub(w, p + Len(x))
             ELSE <<w[p]>> \o sub(w, p + 1)

\* The plain reversal, word[::-1].
mirrored_plain(word) == Reverse(word)

mirrored(word) == Reverse(sub(word, 1))

----------------------------------------------------------------------------
\* syllabify

group(w, a, b) == SubSeq(w, a, b - 1)

\* The coda cut from where the scan resumed instead of where the match begins.
Syllable_since(w, r) ==
    [onset   |-> mirrored(group(w, r.onset, r.end)),
     nucleus |-> mirrored(group(w, r.nucleus, r.onset)),
     coda    |-> mirrored(group(w, pos, r.nucleus))]

\* Lines 226-229: the Syllable of one match.
Syllable(w, r) ==
    [onset   |-> mirrored(group(w, r.onset, r.end)),
     nucleus |-> mirrored(group(w, r.nucleus, r.onset)),
     coda    |-> mirrored(group(w, r.start, r.nucleus))]

word == Flatten(syms)

\* The pieces a word given to syllabify is written with: inventory symbols
\* and the delimiter.
InputSymbols ==
    { <<"a">>, <<"A", "~">>, <<"t">>, <<"S">>, <<"t", "S">>, <<"l">>,
      <<"s">>, <<"j">>, <<"/">> }

\* The pieces a string given to mirrored is written with.
MirrorSymbols ==
    { <<"a">>, <<"A", "~">>, <<"i", "_^", "e">>, <<"t">>, <<"S">>,
      <<"t", "S">>, <<"l">> }

Words(symbols, n) == UNION {[1..k -> symbols] : k \in 0..n}

Init ==
    /\ syms \in Words(InputSymbols, MaxLen)
    /\ pc = "start"
    /\ m = <<>>
    /\ pos = 1
    /\ matches = <<>>
    /\ syllables = <<>>
    /\ out1 = <<>>
    /\ out2 = <<>>

\* The list as collected, without reversed().
Returned_as_met(list) == list

\* Line 230: Syllabification(*reversed(syllables)).
Returned(list) == Reverse(list)

\* Line 224, the call of mirrored(word) and of finditer.
Call ==
    /\ pc = "start"
    /\ m' = mirrored(word)
    /\ pos' = 1
    /\ pc' = "loop"
    /\ UNCHANGED <<syms, matches, syllables, out1, out2>>

\* Lines 225-229, the body of the loop for the match r.
Body(r) ==
    /\ r.ok
    /\ matches' = Append(matches, r)
    /\ syllables' = Append(syllables, Syllable(m, r))
    /\ pos' = r.end

\* Lines 224-229, one turn of the loop.
Iterate ==
    /\ pc = "loop"
    /\ Body(search(m, pos))
    /\ UNCHANGED <<syms, pc, m, out1, out2>>

\* Line 230, when finditer is exhausted.
Return ==
    /\ pc = "loop"
    /\ ~search(m, pos).ok
    /\ syllables' = Returned(syllables)
    /\ pc' = "done"
    /\ UNCHANGED <<syms, m, pos, matches, out1, out2>>

Next == Call \/ Iterate \/ Return

Spec == Init /\ [][Next]_vars

\* mirrored called alone, and on its own result.
MirrorInit ==
    /\ syms \in Words(MirrorSymbols, MaxMirrorLen)
    /\ pc = "start"
    /\ m = <<>>
    /\ pos = 1
    /\ matches = <<>>
    /\ syllables = <<>>
    /\ out1 = <<>>
    /\ out2 = <<>>

MirrorOnce ==
    /\ pc = "start"
    /\ out1' = mirrored(word)
    /\ pc' = "mirrored"
    /\ UNCHANGED <<syms, m, pos, matches, syllables, out2>>

MirrorTwice ==
    /\ pc = "mirrored"
    /\ out2' = mirrored(out1)
    /\ pc' = "mirrored twice"
    /\ UNCHANGED <<syms, m, pos, matches, syllables, out1>>

MirrorNext == MirrorOnce \/ MirrorTwice

MirrorSpec == MirrorInit /\ [][MirrorNext]_vars

----------------------------------------------------------------------------
\* Vocabulary of the properties

Inventory == Range(LIQUIDS \o GLIDES \o VOWELS \o CONSONANTS)

Vowel == Range(VOWELS)

ConsonantClass == Range(LIQUIDS \o GLIDES \o CONSONANTS)

InventoryCodepoints == UNION {Range(x) : x \in Inventory}

Delimiters == { <<"/">>, <<" ">> }

Done == pc = "done"

OnlyInventory == \A i \in 1..Len(syms) : syms[i] \in Inventory

\* onset + nucleus + coda
Text(syl) == syl.onset \o syl.nucleus \o syl.coda

Joined == Flatten([i \in 1..Len(syllables) |-> Text(syllables[i])])

Fields(syl) == {syl.onset, syl.nucleus, syl.coda}

\* The number of vowel symbols among the first j symbols of the word: the
\* index of the syllable of a vowel at j.
VowelsUpTo(j) == Cardinality({i \in 1..j : syms[i] \in Vowel})

\* No multi-codepoint symbol is spelt across two neighbouring symbols of the
\* word (t then S, d then Z): the string reads back as the same symbols.
ReadsBack ==
    \A i \in 1..(Len(syms) - 1) :
        \A x \in complex_sound :
            \A p \in 1..Len(syms[i]) :
                StartsWith(syms[i] \o syms[i + 1], p, x)
                    => p + Len(x) - 1 <= Len(syms[i])

\* Where the i-th symbol of ss starts in Flatten(ss).
RECURSIVE StartOf(_, _)
StartOf(ss, i) == IF i = 1 THEN 1 ELSE StartOf(ss, i - 1) + Len(ss[i - 1])

----------------------------------------------------------------------------
\* C1: for every word made of inventory symbols only, with at least one
\* vowel, the onset + nucleus + coda of the returned syllables, concatenated
\* in order, is the word.
C1_RoundTrip ==
    (Done /\ OnlyInventory /\ \E i \in 1..Len(syms) : syms[i] \in Vowel)
        => Joined = word

\* C2: for every string of inventory symbols, mirrored(mirrored(s)) = s.
C2_Involution == pc = "mirrored twice" => out2 = word

\* Reversing codepoint by codepoint, then putting back in order every span
\* that is a reversed multi-codepoint symbol.
RECURSIVE Repair(_, _)
Repair(w, p) ==
    IF p > Len(w) THEN <<>>
    ELSE LET found == {x \in complex_sound : StartsWith(w, p, Reverse(x))}
         IN  IF found # {}
             THEN LET x == CHOOSE x \in found : TRUE
                  IN  x \o Repair(w, p + Len(x))
             ELSE <<w[p]>> \o Repair(w, p + 1)

TwoPass(w) == Repair(Reverse(w), 1)

\* C6 as stated: for every sequence of inventory symbols, mirrored gives the
\* same symbols in reverse order, each kept whole, and that is the
\* codepoint reversal with the multi-codepoint spans put back in order.
C6_ReversesSymbols ==
    pc = "mirrored" =>
        /\ out1 = Flatten(Reverse(syms))
        /\ out1 = TwoPass(word)

\* C6, amended: the same for every sequence of inventory symbols in which no
\* two neighbouring symbols spell a multi-codepoint symbol together; for every
\* sequence, mirrored is the codepoint reversal with the spans put back.
C6_ReversesSymbolsReadBack ==
    pc = "mirrored" =>
        /\ ReadsBack => out1 = Flatten(Reverse(syms))
        /\ out1 = TwoPass(word)

C6_Witness ==
    /\ pc = "mirrored"
    /\ ReadsBack
    /\ Len(syms) >= 3
    /\ \E i, j \in 1..Len(syms) : Len(syms[i]) = 2 /\ Len(syms[j]) = 3
    /\ out1 # Reverse(word)

\* C3: for any input, the nucleus of every returned syllable is one symbol of
\* VOWELS, and not the beginning of a longer vowel symbol standing at the
\* same place of the scanned string.
C3_NucleusOneVowel ==
    Done =>
        \A k \in 1..Len(matches) :
            LET r == matches[k]
                syl == syllables[Len(matches) + 1 - k]
            IN  /\ syl.nucleus \in Vowel
                /\ \A v \in Vowel :
                       StartsWith(m, r.nucleus, v) => Len(v) <= Len(syl.nucleus)

C3_Witness ==
    /\ Done
    /\ Len(syllables) >= 2
    /\ \E i \in 1..Len(syllables) : syllables[i].nucleus = <<"A", "~">>
    /\ ~OnlyInventory

\* C4: for any word of inventory symbols, '/' and space, the nuclei of the
\* returned syllables are, in order, the vowel symbols of the word; a word
\* with no vowel gives no syllable.
C4_NucleiAreTheVowels ==
    (Done /\ \A i \in 1..Len(syms) : syms[i] \in Inventory \cup Delimiters)
        => [i \in 1..Len(syllables) |-> syllables[i].nucleus]
               = SelectSeq(syms, LAMBDA x : x \in Vowel)

C4_Witness ==
    /\ Done
    /\ Len(syllables) >= 3
    /\ syllables[1].nucleus # syllables[2].nucleus
    /\ \E i \in 1..Len(syms) : syms[i] \in Delimiters

\* C5: for any input, no codepoint that is not part of an inventory symbol
\* ('/', space, anything else) is in the onset, nucleus or coda of a
\* returned syllable.
C5_OnlyInventoryCodepoints ==
    Done =>
        \A i \in 1..Len(syllables) :
            \A f \in Fields(syllables[i]) : Range(f) \subseteq InventoryCodepoints

C5_Witness ==
    /\ Done
    /\ Len(syllables) >= 2
    /\ Cardinality({i \in 1..Len(syms) : syms[i] \in Delimiters}) >= 2
    /\ syms[2] \in Delimiters

\* C7: for any word of inventory symbols, a multi-codepoint symbol of the
\* word is never divided: no match and no group of a match begins or ends
\* inside it. The symbols are placed in the scanned string where mirrored
\* put them, the word being one whose mirror is its symbols reversed.
C7_SymbolsWhole ==
    (Done /\ OnlyInventory /\ m = Flatten(Reverse(syms))) =>
        \A i \in 1..Len(syms) :
            LET a == StartOf(Reverse(syms), i)
                b == a + Len(Reverse(syms)[i])
            IN  \A k \in 1..Len(matches) :
                    \A q \in {matches[k].start, matches[k].nucleus,
                              matches[k].onset, matches[k].end} :
                        ~(a < q /\ q < b)

\* The syllables of the vowels at j and at j + 3 of the word.
FirstOf(j) == syllables[VowelsUpTo(j)]

SecondOf(j) == syllables[VowelsUpTo(j) + 1]

\* vowel, consonant, liquid, vowel from j on.
VCLV(j) ==
    /\ j + 3 <= Len(syms)
    /\ syms[j] \in Vowel
    /\ syms[j + 1] \in Range(CONSONANTS)
    /\ syms[j + 2] \in Range(LIQUIDS)
    /\ syms[j + 3] \in Vowel

\* C8: in vowel, c, liquid, vowel, a liquid-friendly c makes the onset of the
\* second syllable with the liquid and is not in the coda of the first; any
\* other consonant symbol c is the whole coda of the first, and the liquid
\* alone the onset of the second.
C8_LiquidClusters ==
    (Done /\ OnlyInventory /\ Len(syllables) = VowelsUpTo(Len(syms))) =>
        \A j \in 1..Len(syms) :
            VCLV(j) =>
                IF syms[j + 1] \in Range(LIQUID_FRIENDLY)
                THEN /\ SecondOf(j).onset = syms[j + 1] \o syms[j + 2]
                     /\ syms[j + 1][1] \notin Range(FirstOf(j).coda)
                ELSE /\ FirstOf(j).coda = syms[j + 1]
                     /\ SecondOf(j).onset = syms[j + 2]

\* The same with c a single codepoint: what remains true of C8.
C8_SingleCodepoint ==
    (Done /\ OnlyInventory /\ Len(syllables) = VowelsUpTo(Len(syms))) =>
        \A j \in 1..Len(syms) :
            (VCLV(j) /\ Len(syms[j + 1]) = 1) =>
                IF syms[j + 1] \in Range(LIQUID_FRIENDLY)
                THEN /\ SecondOf(j).onset = syms[j + 1] \o syms[j + 2]
                     /\ syms[j + 1][1] \notin Range(FirstOf(j).coda)
                ELSE /\ FirstOf(j).coda = syms[j + 1]
                     /\ SecondOf(j).onset = syms[j + 2]

\* The end in m of the onset of match r before any extrasyllabic s, and
\* whether that part holds more than a glide.
CoreEnd(r) ==
    LET p1 == r.onset + FirstAlt(Y, m, r.onset)
    IN  p1 + FirstAlt(NG_LC_C, m, p1)

HoldsConsonant(r) == CoreEnd(r) > r.onset + FirstAlt(Y, m, r.onset)

\* The scanned string is the word read backwards: the symbol just before an
\* onset in the word is the codepoint just after it in m, the first symbol of
\* the word is the last codepoint of m, and the syllable before that of
\* matches[k] is that of matches[k + 1], which is syllables[n - k] of n.
SBefore(r) == HoldsConsonant(r) /\ CoreEnd(r) <= Len(m) /\ m[CoreEnd(r)] = "s"

C9_WitnessInitial ==
    /\ Done
    /\ OnlyInventory
    /\ \E k \in 1..Len(matches) :
           SBefore(matches[k]) /\ CoreEnd(matches[k]) = Len(m)

\* C10: for any word of inventory symbols, a syllable with a coda is
\* followed by a syllable with an onset, and a single consonant, liquid or
\* glide between two vowels is the onset of the second vowel's syllable, the
\* first vowel's syllable having no coda.
C10_MaximalOnset ==
    (Done /\ OnlyInventory) =>
        /\ \A i \in 1..(Len(syllables) - 1) :
               syllables[i].coda # <<>> => syllables[i + 1].onset # <<>>
        /\ Len(syllables) = VowelsUpTo(Len(syms)) =>
               \A j \in 1..(Len(syms) - 2) :
                   (/\ syms[j] \in Vowel
                    /\ syms[j + 1] \in ConsonantClass
                    /\ syms[j + 2] \in Vowel)
                       => /\ SecondOf(j).onset = syms[j + 1]
                          /\ FirstOf(j).coda = <<>>

C10_Witness ==
    /\ Done
    /\ OnlyInventory
    /\ Len(syllables) >= 2
    /\ syllables[1].coda # <<>>
    /\ Len(syllables[2].onset) >= 2
    /\ Len(syms) = MaxLen

\* A single consonant between two vowels.
C10_WitnessBetween ==
    /\ Done
    /\ OnlyInventory
    /\ \E j \in 1..(Len(syms) - 2) :
           /\ syms[j] \in Vowel
           /\ syms[j + 1] = <<"t", "S">>
           /\ syms[j + 2] \in Vowel
====
